---- MODULE Spec2Model ----
(***************************************************************************)
(* PulseTempo backend: the authentication and token-lifecycle subsystem.   *)
(* The users table (app/models/user.py), the directory operations          *)
(* (app/crud/crud_user.py), the token and password helpers                 *)
(* (app/core/security.py), the Apple identity-token verifier                *)
(* (app/core/apple_auth.py) and the four request handlers of                *)
(* app/routers/auth.py.  Handlers that make several database round trips   *)
(* take one step per round trip, so that concurrent requests interleave    *)
(* between them; the federated login also takes a step for the fetch of    *)
(* the key set, during which it holds the event loop of its process.       *)
(* The tracks table (app/models/track.py) and the two handlers of          *)
(* app/routers/tracks.py that write it are modelled the same way.          *)
(***************************************************************************)
EXTENDS Integers, Sequences, FiniteSets, TLC

VARIABLES users, slots, last, now, loop, kept, tracks

vars == <<users, slots, last, now, loop, kept, tracks>>

(***************************************************************************)
(* Bounds of the model and constants of the program.                       *)
(***************************************************************************)
\* Clock resolution: datetime.utcnow() is finer than the whole seconds a
\* token's exp claim is encoded in.
TicksPerSecond == 2
\* How many ticks past each instant of interest the clock may stand at.
ClockSpan == 3

ACCESS_TOKEN_EXPIRE_MINUTES == 30
REFRESH_TOKEN_EXPIRE_DAYS == 7
BCRYPT_MAX_BYTES == 72

HTTP_400_BAD_REQUEST == 400
HTTP_401_UNAUTHORIZED == 401
HTTP_404_NOT_FOUND == 404
HTTP_409_CONFLICT == 409

None == "None"
SECRET_KEY == "dev_secret_key_change_in_production"
ALGORITHM == "HS256"
APPLE_ISSUER == "https://appleid.apple.com"
APP_BUNDLE_ID == "com.zavier.PulseTempo"

\* The requests that may be in flight at once, and the server processes
\* that handle them: slots 1 and 3 are two requests in one process, slot 2
\* is a request in another process instance.
Slots == {1, 2, 3}
Processes == {"p1", "p2"}
ProcessOf(r) == IF r = 2 THEN "p2" ELSE "p1"

(***************************************************************************)
(* Inputs.                                                                 *)
(***************************************************************************)
\* EmailStr values a registration may carry.
Emails == {"a@x.com", "b@x.com"}
\* username: str is not validated, so it may have the form of an email.
Usernames == {"alice", "a@x.com"}
\* identifier of a local login.
Identifiers == Emails \cup Usernames \cup {"nobody"}

Rep(c, n) == [i \in 1..n |-> c]
\* The NUL character (U+0000), which a JSON string may carry.
NUL == "\\0"
\* Passwords: one of exactly the bcrypt limit, one a byte longer with the
\* same first 72 bytes, a short different one, the empty one and one with
\* a NUL character.
PwLimit == Rep("a", BCRYPT_MAX_BYTES)
PwOver == PwLimit \o <<"b">>
PwShort == <<"p", "w">>
PwEmpty == << >>
PwNul == <<"p", NUL>>
Passwords == {PwLimit, PwOver, PwShort, PwEmpty, PwNul}

\* More passwords for the hasher alone: 100 bytes; 71 bytes; 71 bytes and
\* a two-byte character that the limit cuts in two; 70 bytes and a
\* two-byte character that just fits; and short ones.
Pw100 == Rep("a", 100)
Pw71 == Rep("a", BCRYPT_MAX_BYTES - 1)
PwSplit == Pw71 \o <<"e'">>
PwWide == Rep("a", BCRYPT_MAX_BYTES - 2) \o <<"e'">>
HasherPasswords ==
    Passwords \cup {Pw100, Pw71, PwSplit, PwWide, <<"e'">>, <<"p">>}

(***************************************************************************)
(* Credential hasher (app/core/security.py).                               *)
(***************************************************************************)
\* Bytes of the UTF-8 encoding of one character: "e'" stands for a
\* two-byte character, every other character is ASCII.
Utf8Len(c) == IF c = "e'" THEN 2 ELSE 1

\* str.encode('utf-8'): each byte is <<character, index in it, length>>.
RECURSIVE Utf8Encode(_)
Utf8Encode(s) ==
    IF s = << >> THEN << >>
    ELSE [i \in 1..Utf8Len(Head(s)) |-> <<Head(s), i, Utf8Len(Head(s))>>]
         \o Utf8Encode(Tail(s))

\* bytes.decode('utf-8', errors='ignore'): a complete sequence yields its
\* character, any other byte is dropped.
RECURSIVE Utf8DecodeIgnore(_)
Utf8DecodeIgnore(bs) ==
    IF bs = << >> THEN << >>
    ELSE LET b == Head(bs)
             n == b[3]
             whole == /\ b[2] = 1
                      /\ Len(bs) >= n
                      /\ \A i \in 1..n : bs[i] = <<b[1], i, n>>
         IN IF whole
            THEN <<b[1]>> \o Utf8DecodeIgnore(SubSeq(bs, n + 1, Len(bs)))
            ELSE Utf8DecodeIgnore(Tail(bs))

\* password.encode('utf-8')[:72].decode('utf-8', errors='ignore')
Truncate(password) ==
    LET bs == Utf8Encode(password)
    IN Utf8DecodeIgnore(SubSeq(bs, 1, IF Len(bs) < BCRYPT_MAX_BYTES
                                      THEN Len(bs) ELSE BCRYPT_MAX_BYTES))

\* Truncate on the passwords of the model, computed once.
Truncated == [p \in HasherPasswords |-> Truncate(p)]

\* hashed_password of a row that has none (the column is NULL).
NoHash == [scheme |-> None, intact |-> TRUE, secret |-> << >>]

\* A digest string: the scheme its prefix names, whether the rest has the
\* form that scheme requires, and the secret it was computed from.  The
\* salt is left out: it does not change what verifies.
Bcrypt(secret) == [scheme |-> "bcrypt", intact |-> TRUE, secret |-> secret]

\* pwd_context.hash(secret), CryptContext(schemes=["bcrypt"]): passlib's
\* bcrypt handler refuses a secret with a NUL byte (NullPasswordError).
\* exc names the exception raised, None when a digest is returned.
pwd_context_hash(secret) ==
    IF \E i \in 1..Len(secret) : secret[i] = NUL
    THEN [exc |-> "NullPasswordError", digest |-> NoHash]
    ELSE [exc |-> None, digest |-> Bcrypt(secret)]

get_password_hash(password) == pwd_context_hash(Truncated[password])

\* pwd_context.verify(secret, hash): None is no match; the context
\* identifies the scheme of the digest (UnknownHashError when it is none
\* of its schemes), the handler parses it (MalformedHashError) and hashes
\* the secret (NullPasswordError) to compare.
pwd_context_verify(secret, hash) ==
    IF hash = NoHash THEN [exc |-> None, value |-> FALSE]
    ELSE IF hash.scheme # "bcrypt"
    THEN [exc |-> "UnknownHashError", value |-> FALSE]
    ELSE IF ~hash.intact THEN [exc |-> "MalformedHashError", value |-> FALSE]
    ELSE IF \E i \in 1..Len(secret) : secret[i] = NUL
    THEN [exc |-> "NullPasswordError", value |-> FALSE]
    ELSE [exc |-> None, value |-> hash.secret = secret]

verify_password(plain_password, hashed_password) ==
    pwd_context_verify(Truncated[plain_password], hashed_password)

(***************************************************************************)
(* Token service (app/core/security.py, jose.jwt).                         *)
(***************************************************************************)
\* str(uuid): the text form of a row id.
Str(subject) == <<subject>>

\* payload.get(key): None when the claim is absent.
Get(payload, key) == IF key \in DOMAIN payload THEN payload[key] ELSE None

\* jwt.encode: a datetime exp claim becomes whole seconds
\* (timegm(exp.utctimetuple())); the claims are signed with the key.
JwtEncode(to_encode, key) ==
    [claims |-> [to_encode EXCEPT !.exp = to_encode.exp \div TicksPerSecond],
     key |-> key]

\* datetime.utcnow() + timedelta(minutes=ACCESS_TOKEN_EXPIRE_MINUTES)
AccessLifetime == ACCESS_TOKEN_EXPIRE_MINUTES * 60 * TicksPerSecond
\* datetime.utcnow() + timedelta(days=REFRESH_TOKEN_EXPIRE_DAYS)
RefreshLifetime == REFRESH_TOKEN_EXPIRE_DAYS * 24 * 60 * 60 * TicksPerSecond

create_access_token(subject, t) ==
    JwtEncode([exp |-> t + AccessLifetime, sub |-> Str(subject)], SECRET_KEY)

create_refresh_token(subject, t) ==
    JwtEncode([exp |-> t + RefreshLifetime, sub |-> Str(subject),
               type |-> "refresh"], SECRET_KEY)

\* jwt.decode with the expiry check left out.
JwtDecodeNoExp(token, key, t) ==
    IF token.key # key
    THEN [error |-> "JWTError", payload |-> token.claims]
    ELSE [error |-> None, payload |-> token.claims]

\* jwt.decode that compares the exp claim, in seconds, with the current
\* time in the finer unit of the clock.
JwtDecodeClockUnits(token, key, t) ==
    IF token.key # key
    THEN [error |-> "JWTError", payload |-> token.claims]
    ELSE IF token.claims.exp < t
    THEN [error |-> "ExpiredSignatureError", payload |-> token.claims]
    ELSE [error |-> None, payload |-> token.claims]

\* jwt.decode(token, key, algorithms=[ALGORITHM]): the signature is checked
\* first, then exp against the current time in whole seconds.  Every
\* failure is a JWTError.
JwtDecode(token, key, t) ==
    IF token.key # key
    THEN [error |-> "JWTError", payload |-> token.claims]
    ELSE IF token.claims.exp < t \div TicksPerSecond
    THEN [error |-> "ExpiredSignatureError", payload |-> token.claims]
    ELSE [error |-> None, payload |-> token.claims]

\* The body with the two tokens in each other's place.
TokenPairSwapped(subject, t) ==
    [status |-> 200,
     access_token |-> create_refresh_token(subject, t),
     refresh_token |-> create_access_token(subject, t),
     token_type |-> "bearer"]

\* The body every successful flow returns.
TokenPair(subject, t) ==
    [status |-> 200,
     access_token |-> create_access_token(subject, t),
     refresh_token |-> create_refresh_token(subject, t),
     token_type |-> "bearer"]

\* raise HTTPException(status_code, detail)
HTTPException(status_code, detail) ==
    [status |-> status_code, detail |-> detail]

\* An exception no handler catches: the framework answers 500.
Unhandled(exc) == [status |-> 500, detail |-> exc]

(***************************************************************************)
(* User directory (app/models/user.py, app/crud/crud_user.py).             *)
(***************************************************************************)
\* The result of a query that matched no row.
NoRow == [id |-> 0, apple_user_id |-> None, email |-> None,
          username |-> None, hashed_password |-> NoHash,
          first_name |-> None, last_name |-> None]

\* Query.first() without ORDER BY: any one of the matching rows.
First(matching) == IF matching = {} THEN {NoRow} ELSE matching

\* A lookup by id whose filter is lost.
get_unfiltered(db, user_id) == First(db)

get(db, user_id) == First({u \in db : Str(u.id) = user_id})

get_by_apple_id(db, apple_user_id) ==
    First({u \in db : u.apple_user_id = apple_user_id})

\* A lookup by email that filters on the wrong column.
get_by_email_wrong_column(db, email) == First({u \in db : u.username = email})

get_by_email(db, email) == First({u \in db : u.email = email})

\* A lookup by username that filters on the wrong column.
get_by_username_wrong_column(db, username) ==
    First({u \in db : u.email = username})

get_by_username(db, username) == First({u \in db : u.username = username})

\* uuid.uuid4(): an id no row has.
NewId(db) == Cardinality(db) + 1

\* The users table without the unique index on email.
UniqueViolationNoEmailIndex(db, row) ==
    \E u \in db :
        \/ row.apple_user_id # None /\ u.apple_user_id = row.apple_user_id
        \/ row.username # None /\ u.username = row.username

\* The unique indexes of the users table: apple_user_id, email and
\* username, NULLs never conflicting.
UniqueViolation(db, row) ==
    \E u \in db :
        \/ row.apple_user_id # None /\ u.apple_user_id = row.apple_user_id
        \/ row.email # None /\ u.email = row.email
        \/ row.username # None /\ u.username = row.username

\* The row crud_user.create adds (username is absent from the request).
AppleRow(db, obj_in) ==
    [id |-> NewId(db), apple_user_id |-> obj_in.apple_user_id,
     email |-> obj_in.email, username |-> None, hashed_password |-> NoHash,
     first_name |-> obj_in.first_name, last_name |-> obj_in.last_name]

\* A row of a registration that is stored without its digest.
EmailRowNoHash(db, obj_in) ==
    [id |-> NewId(db), apple_user_id |-> None, email |-> obj_in.email,
     username |-> obj_in.username, hashed_password |-> NoHash,
     first_name |-> obj_in.first_name, last_name |-> obj_in.last_name]

\* The row crud_user.create_with_email adds, once get_password_hash has
\* returned the digest.
EmailRow(db, obj_in) ==
    [id |-> NewId(db), apple_user_id |-> None, email |-> obj_in.email,
     username |-> obj_in.username,
     hashed_password |-> get_password_hash(obj_in.password).digest,
     first_name |-> obj_in.first_name, last_name |-> obj_in.last_name]

\* The checks of authenticate_by_identifier on the row the query gave: the
\* user it returns (NoRow for None), or the exception verify_password
\* raised.
authenticate_by_identifier(user, password) ==
    IF user = NoRow THEN [exc |-> None, user |-> NoRow]
    ELSE IF user.hashed_password = NoHash THEN [exc |-> None, user |-> NoRow]
    ELSE LET verified == verify_password(password, user.hashed_password)
         IN IF verified.exc # None THEN [exc |-> verified.exc, user |-> NoRow]
            ELSE IF ~verified.value THEN [exc |-> None, user |-> NoRow]
            ELSE [exc |-> None, user |-> user]

(***************************************************************************)
(* Federated identity verifier (app/core/apple_auth.py).                   *)
(***************************************************************************)
\* An exp claim later than every instant of the model.
FarFuture == 2 * REFRESH_TOKEN_EXPIRE_DAYS * 24 * 60 * 60

\* An identity token Apple signed for this application.
Genuine(sub, email) ==
    [kid |-> "apple_kid", sig |-> "apple", iss |-> APPLE_ISSUER,
     aud |-> APP_BUNDLE_ID, exp |-> FarFuture, sub |-> sub, email |-> email]

AppleSubjects == {"sub1", "sub2"}
\* The email claim is optional.
EmailClaims == {None, "a@x.com"}
\* AppleLoginRequest.email, supplied by the client.
ClientEmails == {None, "b@x.com"}

\* Tokens that must not verify: each differs from a genuine one in one
\* respect.
Defective ==
    LET g == Genuine("sub1", "a@x.com")
    IN {[g EXCEPT !.kid = "unknown_kid"],
        [g EXCEPT !.sig = "forged"],
        [g EXCEPT !.iss = "https://evil.example"],
        [g EXCEPT !.aud = "com.other.App"],
        [g EXCEPT !.exp = 0]}

IdentityTokens ==
    {Genuine(s, e) : s \in AppleSubjects, e \in EmailClaims} \cup Defective

\* verify_apple_token that decodes without checking the signature.
verify_apple_token_unsigned(identity_token, jwks_reachable, t) ==
    LET fail(exc) == [error |-> exc, apple_user_id |-> None, email |-> None]
    IN IF ~jwks_reachable THEN fail("PyJWKClientConnectionError")
       ELSE IF identity_token.kid # "apple_kid" THEN fail("PyJWKClientError")
       ELSE IF identity_token.exp * TicksPerSecond <= t
       THEN fail("ExpiredSignatureError")
       ELSE IF identity_token.aud # APP_BUNDLE_ID
       THEN fail("InvalidAudienceError")
       ELSE IF identity_token.iss # APPLE_ISSUER THEN fail("InvalidIssuerError")
       ELSE [error |-> None, apple_user_id |-> identity_token.sub,
             email |-> identity_token.email]

\* verify_apple_token: the key set is fetched and the key of the token's
\* kid picked (PyJWKClient), then jwt.decode checks the signature, exp,
\* audience and issuer.  error names the exception raised, None on success.
verify_apple_token(identity_token, jwks_reachable, t) ==
    LET fail(exc) == [error |-> exc, apple_user_id |-> None, email |-> None]
    IN IF ~jwks_reachable THEN fail("PyJWKClientConnectionError")
       ELSE IF identity_token.kid # "apple_kid" THEN fail("PyJWKClientError")
       ELSE IF identity_token.sig # "apple" THEN fail("InvalidSignatureError")
       ELSE IF identity_token.exp * TicksPerSecond <= t
       THEN fail("ExpiredSignatureError")
       ELSE IF identity_token.aud # APP_BUNDLE_ID
       THEN fail("InvalidAudienceError")
       ELSE IF identity_token.iss # APPLE_ISSUER THEN fail("InvalidIssuerError")
       ELSE [error |-> None, apple_user_id |-> identity_token.sub,
             email |-> identity_token.email]

\* Python's `a or b` on optional strings.
\* The client's value preferred over the verified one.
OrClientFirst(a, b) == IF b \in {None, ""} THEN a ELSE b

Or(a, b) == IF a \in {None, ""} THEN b ELSE a

(***************************************************************************)
(* Track table (app/models/track.py).  A Float column holds NoValue for    *)
(* NULL or Value(x); bpm is counted in tenths (BPMAnalyzer rounds to one   *)
(* decimal) and confidence in hundredths.                                  *)
(***************************************************************************)
NoValue == << >>
Value(x) == <<x>>

\* confidence 1.0, the confidence of an analysed bpm.
FullConfidence == 100

\* Track.id values (Apple Music ids).
TrackIds == {"t1", "t2"}

\* The result of a query that matched no track.
NoTrack == [id |-> None, title |-> None, artist |-> None,
            bpm |-> NoValue, confidence |-> NoValue, source |-> None]

\* No row in the tracks table.
NoTracks == [id \in TrackIds |-> NoTrack]

\* bool(x) of an Optional[float].
Truthy(x) == x # NoValue /\ x[1] # 0

\* (x or 0) of an Optional[float].
OrZero(x) == IF Truthy(x) THEN x[1] ELSE 0

\* The UPDATE the unit of work emits at commit for an object loaded as
\* `loaded` and now `current`: the columns whose value differs from the
\* loaded one are written to the stored row, the others are left as they
\* are stored.
Flush(stored, loaded, current) ==
    [column \in DOMAIN stored |->
        IF current[column] # loaded[column] THEN current[column]
        ELSE stored[column]]

(***************************************************************************)
(* Request handlers (app/routers/auth.py).  slots[r] is the request slot   *)
(* r is handling, with its local variables; last is the request that       *)
(* completed most recently, with the response it got.                      *)
(***************************************************************************)
Idle == [pc |-> "idle"]

\* The event loop of the process of slot r is not inside a handler.
\* Every request is accepted and dispatched on it, and an `async def`
\* handler runs on it from its first step to its last; a `def` handler
\* runs in a worker thread once dispatched, and its steps and its answer
\* are taken not to wait for the loop.
LoopFree(r) == loop[ProcessOf(r)] = 0

\* The event loop of the process of slot r with `holder` running on it
\* (0: nothing).
LoopWith(r, holder) == [loop EXCEPT ![ProcessOf(r)] = holder]

Init ==
    /\ users = {}
    /\ slots = [r \in Slots |-> Idle]
    /\ last = [kind |-> "none"]
    /\ now = 0
    /\ loop = [p \in Processes |-> 0]
    /\ kept = [kind |-> "none"]
    /\ tracks = NoTracks

\* register_with_email, first round trip: the request arrives, is handed
\* to a worker thread, and the email is looked up.
RegisterCheckEmail(r, emails, usernames, passwords, names) ==
    /\ slots[r].pc = "idle"
    /\ LoopFree(r)
    /\ \E email \in emails, username \in usernames, password \in passwords,
          first_name \in names, last_name \in names :
         \E existing_user \in get_by_email(users, email) :
           LET user_in == [email |-> email, username |-> username,
                           password |-> password,
                           first_name |-> first_name, last_name |-> last_name]
           IN IF existing_user # NoRow
              THEN /\ last' = [kind |-> "register", user_in |-> user_in,
                               response |-> HTTPException(HTTP_400_BAD_REQUEST,
                                   "An account with this email already exists")]
                   /\ UNCHANGED slots
              ELSE /\ slots' = [slots EXCEPT ![r] =
                                  [pc |-> "check_username", user_in |-> user_in]]
                   /\ UNCHANGED last
    /\ UNCHANGED <<users, now, loop, kept, tracks>>

\* register_with_email, second round trip: the username is looked up.
RegisterCheckUsername(r) ==
    /\ slots[r].pc = "check_username"
    /\ \E existing_username \in get_by_username(users, slots[r].user_in.username) :
         IF existing_username # NoRow
         THEN /\ last' = [kind |-> "register", user_in |-> slots[r].user_in,
                          response |-> HTTPException(HTTP_409_CONFLICT,
                                          "This username is already taken")]
              /\ slots' = [slots EXCEPT ![r] = Idle]
         ELSE /\ slots' = [slots EXCEPT ![r].pc = "create"]
              /\ UNCHANGED last
    /\ UNCHANGED <<users, now, loop, kept, tracks>>

\* The outcome of create_with_email on table db: the exception it raises
\* (get_password_hash's before anything is added, or the commit's
\* IntegrityError), or the row it commits.
create_with_email(db, obj_in) ==
    LET hashed == get_password_hash(obj_in.password)
        db_obj == EmailRow(db, obj_in)
    IN IF hashed.exc # None THEN [exc |-> hashed.exc, db_obj |-> NoRow]
       ELSE IF UniqueViolation(db, db_obj)
       THEN [exc |-> "IntegrityError", db_obj |-> NoRow]
       ELSE [exc |-> None, db_obj |-> db_obj]

\* The outcome of crud_user.create on table db.
create(db, obj_in) ==
    LET db_obj == AppleRow(db, obj_in)
    IN IF UniqueViolation(db, db_obj)
       THEN [exc |-> "IntegrityError", db_obj |-> NoRow]
       ELSE [exc |-> None, db_obj |-> db_obj]

\* register_with_email that answers with the error although the row was
\* committed.
RegisterCreateThenFail(r) ==
    /\ slots[r].pc = "create"
    /\ "user_in" \in DOMAIN slots[r]
    /\ users' = users \cup {EmailRow(users, slots[r].user_in)}
    /\ last' = [kind |-> "register", user_in |-> slots[r].user_in,
                response |-> Unhandled("IntegrityError")]
    /\ slots' = [slots EXCEPT ![r] = Idle]
    /\ UNCHANGED <<now, loop, kept, tracks>>

\* register_with_email, third round trip: create_with_email commits the
\* row, or raises an exception that nothing catches; then the token pair
\* is made.
RegisterCreate(r) ==
    /\ slots[r].pc = "create"
    /\ "user_in" \in DOMAIN slots[r]
    /\ LET created == create_with_email(users, slots[r].user_in)
           done(response) == [kind |-> "register", user_in |-> slots[r].user_in,
                              response |-> response]
       IN IF created.exc # None
          THEN /\ last' = done(Unhandled(created.exc))
               /\ UNCHANGED users
          ELSE /\ users' = users \cup {created.db_obj}
               /\ last' = done(TokenPair(created.db_obj.id, now))
    /\ slots' = [slots EXCEPT ![r] = Idle]
    /\ UNCHANGED <<now, loop, kept, tracks>>

\* The response of login_with_email for what authenticate_by_identifier
\* returned.
LoginResponse(user, t) ==
    IF user = NoRow
    THEN HTTPException(HTTP_401_UNAUTHORIZED,
                       "Incorrect email/username or password")
    ELSE TokenPair(user.id, t)

\* login_with_email: one query, the checks, the token pair.  user is the
\* row the query gave.
LoginWithEmail(r, identifiers, passwords) ==
    /\ slots[r].pc = "idle"
    /\ LoopFree(r)
    /\ \E identifier \in identifiers, password \in passwords :
         \E user \in First({u \in users : \/ u.email = identifier
                                          \/ u.username = identifier}) :
           LET authenticated == authenticate_by_identifier(user, password)
           IN last' = [kind |-> "login",
                       login_in |-> [identifier |-> identifier,
                                     password |-> password],
                       user |-> user,
                       response |->
                           IF authenticated.exc # None
                           THEN Unhandled(authenticated.exc)
                           ELSE LoginResponse(authenticated.user, now)]
    /\ UNCHANGED <<users, slots, now, loop, kept, tracks>>

\* login_with_apple starts: the coroutine runs on the event loop, and
\* verify_apple_token calls get_signing_key_from_jwt, which fetches the
\* key set with a blocking request (no await: the loop is not given back).
AppleFetch(r, identity_tokens, client_emails, names) ==
    /\ slots[r].pc = "idle"
    /\ LoopFree(r)
    /\ \E identity_token \in identity_tokens, email \in client_emails,
          first_name \in names, last_name \in names :
         slots' = [slots EXCEPT ![r] =
                     [pc |-> "fetch",
                      login_req |-> [identity_token |-> identity_token,
                                     email |-> email,
                                     first_name |-> first_name,
                                     last_name |-> last_name]]]
    /\ loop' = LoopWith(r, r)
    /\ UNCHANGED <<users, last, now, kept, tracks>>

\* login_with_apple, the end of `await verify_apple_token`: the fetch has
\* returned or failed, and the token is checked.  A failure is an
\* exception that nothing catches.
AppleVerify(r) ==
    /\ slots[r].pc = "fetch"
    /\ \E jwks_reachable \in BOOLEAN :
         LET login_req == slots[r].login_req
             verified == verify_apple_token(login_req.identity_token,
                                            jwks_reachable, now)
         IN IF verified.error # None
            THEN /\ last' = [kind |-> "apple", login_req |-> login_req,
                             jwks_reachable |-> jwks_reachable,
                             user |-> NoRow,
                             response |-> Unhandled(verified.error)]
                 /\ slots' = [slots EXCEPT ![r] = Idle]
                 /\ loop' = LoopWith(r, 0)
            ELSE /\ slots' = [slots EXCEPT ![r] =
                                [pc |-> "lookup", login_req |-> login_req,
                                 jwks_reachable |-> jwks_reachable,
                                 verified |-> verified]]
                 /\ UNCHANGED <<last, loop>>
    /\ UNCHANGED <<users, now, kept, tracks>>

\* login_with_apple that overwrites the row it found with the values of
\* the request.
AppleLookupUpsert(r) ==
    /\ slots[r].pc = "lookup"
    /\ \E user \in get_by_apple_id(users, slots[r].verified.apple_user_id) :
         IF user # NoRow
         THEN LET updated == [user EXCEPT
                                !.first_name = slots[r].login_req.first_name,
                                !.last_name = slots[r].login_req.last_name]
              IN /\ users' = (users \ {user}) \cup {updated}
                 /\ last' = [kind |-> "apple", login_req |-> slots[r].login_req,
                             jwks_reachable |-> slots[r].jwks_reachable,
                             user |-> updated,
                             response |-> TokenPair(user.id, now)]
                 /\ slots' = [slots EXCEPT ![r] = Idle]
                 /\ loop' = LoopWith(r, 0)
         ELSE /\ slots' = [slots EXCEPT ![r].pc = "create"]
              /\ UNCHANGED <<users, last, loop>>
    /\ UNCHANGED <<now, kept, tracks>>

\* login_with_apple: get_by_apple_id; an existing user gets the token pair.
AppleLookup(r) ==
    /\ slots[r].pc = "lookup"
    /\ \E user \in get_by_apple_id(users, slots[r].verified.apple_user_id) :
         IF user # NoRow
         THEN /\ last' = [kind |-> "apple", login_req |-> slots[r].login_req,
                          jwks_reachable |-> slots[r].jwks_reachable,
                          user |-> user,
                          response |-> TokenPair(user.id, now)]
              /\ slots' = [slots EXCEPT ![r] = Idle]
              /\ loop' = LoopWith(r, 0)
         ELSE /\ slots' = [slots EXCEPT ![r].pc = "create"]
              /\ UNCHANGED <<last, loop>>
    /\ UNCHANGED <<users, now, kept, tracks>>

\* login_with_apple: crud_user.create commits the new row, or the commit
\* raises IntegrityError, which nothing catches; then the token pair.
AppleCreate(r) ==
    /\ slots[r].pc = "create"
    /\ "verified" \in DOMAIN slots[r]
    /\ LET obj_in == [apple_user_id |-> slots[r].verified.apple_user_id,
                      email |-> Or(slots[r].verified.email,
                                   slots[r].login_req.email),
                      first_name |-> slots[r].login_req.first_name,
                      last_name |-> slots[r].login_req.last_name]
           created == create(users, obj_in)
           done(user, response) ==
               [kind |-> "apple", login_req |-> slots[r].login_req,
                jwks_reachable |-> slots[r].jwks_reachable,
                user |-> user,
                response |-> response]
       IN IF created.exc # None
          THEN /\ last' = done(NoRow, Unhandled(created.exc))
               /\ UNCHANGED users
          ELSE /\ users' = users \cup {created.db_obj}
               /\ last' = done(created.db_obj,
                               TokenPair(created.db_obj.id, now))
    /\ slots' = [slots EXCEPT ![r] = Idle]
    /\ loop' = LoopWith(r, 0)
    /\ UNCHANGED <<now, kept, tracks>>

\* The instants the clock may stand at: around the start, and around the
\* end of the lifetime of a refresh token issued at the start.
Instants ==
    (0..ClockSpan) \cup {RefreshLifetime + k : k \in 0..ClockSpan}

\* Time passes.
Tick ==
    /\ \E t \in Instants : t > now /\ now' = t
    /\ UNCHANGED <<users, slots, last, loop, kept, tracks>>

\* The tokens a client may present at time t: every token this service
\* can have signed by then (the subject of one may be an account that is
\* gone, or not there yet), and the same claims signed with another key.
PresentableTokens(db, t) ==
    LET signed ==
            UNION {{create_access_token(subject, at),
                    create_refresh_token(subject, at)} :
                   subject \in 1..(Cardinality(db) + 1),
                   at \in {i \in Instants : i <= t}}
    IN signed \cup {[token EXCEPT !.key = "attacker_key"] : token \in signed}

\* refresh_access_token without the check of the kind tag.
RefreshResponseAnyType(decoded, user, t) ==
    IF decoded.error # None
    THEN HTTPException(HTTP_401_UNAUTHORIZED, "Refresh token expired or invalid")
    ELSE IF "sub" \notin DOMAIN decoded.payload \/ decoded.payload.sub = << >>
    THEN HTTPException(HTTP_401_UNAUTHORIZED, "Invalid token payload")
    ELSE IF user = NoRow
    THEN HTTPException(HTTP_404_NOT_FOUND, "User not found")
    ELSE TokenPair(user.id, t)

\* refresh_access_token after jwt.decode and the lookup by subject: the
\* response for what they gave.
RefreshResponse(decoded, user, t) ==
    IF decoded.error # None
    THEN HTTPException(HTTP_401_UNAUTHORIZED, "Refresh token expired or invalid")
    ELSE IF Get(decoded.payload, "type") # "refresh"
    THEN HTTPException(HTTP_401_UNAUTHORIZED, "Invalid token type")
    ELSE IF "sub" \notin DOMAIN decoded.payload \/ decoded.payload.sub = << >>
    THEN HTTPException(HTTP_401_UNAUTHORIZED, "Invalid token payload")
    ELSE IF user = NoRow
    THEN HTTPException(HTTP_404_NOT_FOUND, "User not found")
    ELSE TokenPair(user.id, t)

\* refresh_access_token: the token is decoded, the user looked up by its
\* subject, the new pair made.
RefreshAccessToken(r) ==
    /\ slots[r].pc = "idle"
    /\ LoopFree(r)
    /\ \E refresh_token \in PresentableTokens(users, now) :
         \E user \in get(users, refresh_token.claims.sub) :
           last' = [kind |-> "refresh",
                    body |-> [refresh_token |-> refresh_token],
                    at |-> now,
                    response |-> RefreshResponse(
                        JwtDecode(refresh_token, SECRET_KEY, now), user, now)]
    /\ UNCHANGED <<users, slots, now, loop, kept, tracks>>

\* A client keeps the refresh token it has just exchanged, and the pair it
\* got for it, to present them later: kept is that exchange.
KeepToken ==
    /\ kept.kind = "none"
    /\ last.kind = "refresh"
    /\ last.response.status = 200
    /\ kept' = last
    /\ UNCHANGED <<users, slots, last, now, loop, tracks>>

(***************************************************************************)
(* Track handlers (app/routers/tracks.py).  Each request has its own       *)
(* Session; what it read stays as it was read until its commit.  No        *)
(* handler deletes a track.                                                *)
(***************************************************************************)
\* What BPMAnalyzer.analyze_url may do for a preview URL: return one of
\* `bpms`, or raise one of its two HTTPExceptions.
DownloadFailed == HTTPException(HTTP_400_BAD_REQUEST, "Failed to download audio")
AnalysisFailed == HTTPException(500, "BPM analysis failed")
analyze_url(bpms) ==
    {[ok |-> TRUE, bpm |-> bpm] : bpm \in bpms}
    \cup {[ok |-> FALSE, error |-> DownloadFailed],
          [ok |-> FALSE, error |-> AnalysisFailed]}

AnalyzeResponse(apple_music_id, bpm, confidence) ==
    [status |-> 200, apple_music_id |-> apple_music_id, bpm |-> bpm,
     confidence |-> confidence]

\* analyze_track, first round trip and the analysis: the track is looked
\* up; a stored bpm of full confidence is returned as it is; otherwise the
\* preview is analysed, and an exception of the analyzer ends the request.
AnalyzeQuery(r, ids, bpms) ==
    /\ slots[r].pc = "idle"
    /\ LoopFree(r)
    /\ \E apple_music_id \in ids, analysed \in analyze_url(bpms) :
         LET request == [apple_music_id |-> apple_music_id,
                         preview_url |-> "preview"]
             track == tracks[apple_music_id]
             done(response) == [kind |-> "analyze", request |-> request,
                                response |-> response, commits |-> 0]
         IN IF /\ track # NoTrack
               /\ Truthy(track.bpm)
               /\ track.confidence = Value(FullConfidence)
            THEN /\ last' = done(AnalyzeResponse(track.id, track.bpm[1],
                                                 track.confidence[1]))
                 /\ UNCHANGED slots
            ELSE IF ~analysed.ok
            THEN /\ last' = done(analysed.error)
                 /\ UNCHANGED slots
            ELSE /\ slots' = [slots EXCEPT ![r] =
                                [pc |-> IF track = NoTrack
                                        THEN "analyze_insert"
                                        ELSE "analyze_update",
                                 request |-> request, track |-> track,
                                 bpm |-> analysed.bpm, commits |-> 0]]
                 /\ UNCHANGED last
    /\ UNCHANGED <<users, now, loop, kept, tracks>>

\* The track analyze_track adds when it found none.
AnalyzedTrack(request, bpm) ==
    [id |-> request.apple_music_id, title |-> "Unknown",
     artist |-> "Unknown", bpm |-> Value(bpm),
     confidence |-> Value(FullConfidence), source |-> "librosa_analysis"]

\* The track analyze_track makes of the one it read.
analyze_update(track, bpm) ==
    [track EXCEPT !.bpm = Value(bpm),
                  !.confidence = Value(FullConfidence),
                  !.source = "librosa_analysis"]

\* The answer of analyze_track once the bpm is known.
AnalyzeDone(r, commits) ==
    [kind |-> "analyze", request |-> slots[r].request,
     response |-> AnalyzeResponse(slots[r].request.apple_music_id,
                                  slots[r].bpm, FullConfidence),
     commits |-> commits]

\* analyze_track that does not catch the IntegrityError of its commit.
AnalyzeInsertUncaught(r) ==
    /\ slots[r].pc = "analyze_insert"
    /\ LET apple_music_id == slots[r].request.apple_music_id
       IN IF tracks[apple_music_id] # NoTrack
          THEN /\ last' = [kind |-> "analyze", request |-> slots[r].request,
                           response |-> Unhandled("IntegrityError"),
                           commits |-> slots[r].commits + 1]
               /\ UNCHANGED tracks
          ELSE /\ tracks' = [tracks EXCEPT ![apple_music_id] =
                                AnalyzedTrack(slots[r].request, slots[r].bpm)]
               /\ last' = AnalyzeDone(r, slots[r].commits + 1)
    /\ slots' = [slots EXCEPT ![r] = Idle]
    /\ UNCHANGED <<users, now, loop, kept>>

\* analyze_track, no track was found: the new track is committed, or the
\* commit raises IntegrityError because a row of that id is there by now,
\* and the transaction is rolled back.
AnalyzeInsert(r) ==
    /\ slots[r].pc = "analyze_insert"
    /\ LET apple_music_id == slots[r].request.apple_music_id
       IN IF tracks[apple_music_id] # NoTrack
          THEN /\ slots' = [slots EXCEPT ![r].pc = "analyze_requery",
                                         ![r].commits = @ + 1]
               /\ UNCHANGED <<last, tracks>>
          ELSE /\ tracks' = [tracks EXCEPT ![apple_music_id] =
                                AnalyzedTrack(slots[r].request, slots[r].bpm)]
               /\ last' = AnalyzeDone(r, slots[r].commits + 1)
               /\ slots' = [slots EXCEPT ![r] = Idle]
    /\ UNCHANGED <<users, now, loop, kept>>

\* analyze_track after the rollback: the track is looked up again.
AnalyzeRequery(r) ==
    /\ slots[r].pc = "analyze_requery"
    /\ LET track == tracks[slots[r].request.apple_music_id]
       IN IF track = NoTrack
          THEN /\ last' = AnalyzeDone(r, slots[r].commits)
               /\ slots' = [slots EXCEPT ![r] = Idle]
          ELSE /\ slots' = [slots EXCEPT ![r].pc = "analyze_update",
                                         ![r].track = track]
               /\ UNCHANGED last
    /\ UNCHANGED <<users, now, loop, kept, tracks>>

\* analyze_track that stores the bpm alone.
AnalyzeUpdateBpmOnly(r) ==
    /\ slots[r].pc = "analyze_update"
    /\ LET apple_music_id == slots[r].request.apple_music_id
           loaded == slots[r].track
       IN tracks' = [tracks EXCEPT ![apple_music_id] =
                        Flush(@, loaded,
                              [loaded EXCEPT !.bpm = Value(slots[r].bpm)])]
    /\ last' = AnalyzeDone(r, slots[r].commits + 1)
    /\ slots' = [slots EXCEPT ![r] = Idle]
    /\ UNCHANGED <<users, now, loop, kept>>

\* analyze_track, a track was found: bpm, confidence and source are set on
\* it and committed.
AnalyzeUpdate(r) ==
    /\ slots[r].pc = "analyze_update"
    /\ LET apple_music_id == slots[r].request.apple_music_id
           loaded == slots[r].track
       IN tracks' = [tracks EXCEPT ![apple_music_id] =
                        Flush(@, loaded, analyze_update(loaded, slots[r].bpm))]
    /\ last' = AnalyzeDone(r, slots[r].commits + 1)
    /\ slots' = [slots EXCEPT ![r] = Idle]
    /\ UNCHANGED <<users, now, loop, kept>>

\* The track register_tracks adds for an entry whose id it did not find.
RegisteredTrack(track_in) ==
    [id |-> track_in.id, title |-> track_in.title, artist |-> track_in.artist,
     bpm |-> track_in.bpm, confidence |-> track_in.confidence,
     source |-> "apple_music"]

\* register_tracks that takes every bpm an entry brings.
register_update_any_confidence(track, track_in) ==
    IF Truthy(track_in.bpm)
    THEN [track EXCEPT !.bpm = track_in.bpm,
                       !.confidence = track_in.confidence]
    ELSE track

\* What register_tracks makes of a track it found, for the entry track_in.
register_update(track, track_in) ==
    IF /\ Truthy(track_in.bpm)
       /\ \/ track.bpm = NoValue
          \/ OrZero(track_in.confidence) > OrZero(track.confidence)
    THEN [track EXCEPT !.bpm = track_in.bpm,
                       !.confidence = track_in.confidence]
    ELSE track

\* A Session that holds no track.
NoSession ==
    [id \in TrackIds |-> [held |-> FALSE, loaded |-> NoTrack,
                          current |-> NoTrack]]

\* register_tracks: the request has passed deps.get_current_user and the
\* loop over its entries begins.
RegisterTracksBegin(r, batches) ==
    /\ slots[r].pc = "idle"
    /\ LoopFree(r)
    /\ \E tracks_in \in batches :
         slots' = [slots EXCEPT ![r] =
                     [pc |-> "register_tracks", tracks_in |-> tracks_in,
                      index |-> 1, session |-> NoSession]]
    /\ UNCHANGED <<users, last, now, loop, kept, tracks>>

\* register_tracks, one pass of the loop: the query returns the object the
\* Session already holds for that id, as the Session has it, or else the
\* stored row; a track that is not found is added to the Session, one that
\* is found is updated in it.
RegisterTracksQuery(r) ==
    /\ slots[r].pc = "register_tracks"
    /\ slots[r].index <= Len(slots[r].tracks_in)
    /\ LET track_in == slots[r].tracks_in[slots[r].index]
           held == slots[r].session[track_in.id]
           track == IF held.held THEN held.current ELSE tracks[track_in.id]
           loaded == IF held.held THEN held.loaded ELSE tracks[track_in.id]
           current == IF track = NoTrack THEN RegisteredTrack(track_in)
                      ELSE register_update(track, track_in)
       IN slots' = [slots EXCEPT
                      ![r].session[track_in.id] =
                          [held |-> TRUE, loaded |-> loaded,
                           current |-> current],
                      ![r].index = @ + 1]
    /\ UNCHANGED <<users, last, now, loop, kept, tracks>>

TrackResponse(track) ==
    [id |-> track.id, title |-> track.title, artist |-> track.artist,
     bpm |-> track.bpm, confidence |-> track.confidence]

\* register_tracks, db.commit(): the added tracks are inserted and the
\* changed columns of the others updated, or an insert meets a row of its
\* id that was committed meanwhile and IntegrityError, which nothing
\* catches, leaves nothing written; the answer lists the tracks as they
\* are read back.
RegisterTracksCommit(r) ==
    /\ slots[r].pc = "register_tracks"
    /\ slots[r].index > Len(slots[r].tracks_in)
    /\ LET session == slots[r].session
           tracks_in == slots[r].tracks_in
           done(response) == [kind |-> "register_tracks",
                              tracks_in |-> tracks_in,
                              response |-> response]
           committed ==
               [id \in TrackIds |->
                   IF ~session[id].held THEN tracks[id]
                   ELSE IF session[id].loaded = NoTrack
                   THEN session[id].current
                   ELSE Flush(tracks[id], session[id].loaded,
                              session[id].current)]
       IN IF \E id \in TrackIds : /\ session[id].held
                                  /\ session[id].loaded = NoTrack
                                  /\ tracks[id] # NoTrack
          THEN /\ last' = done(Unhandled("IntegrityError"))
               /\ UNCHANGED tracks
          ELSE /\ tracks' = committed
               /\ last' = done([status |-> 200,
                                body |-> [i \in 1..Len(tracks_in) |->
                                    TrackResponse(committed[tracks_in[i].id])]])
    /\ slots' = [slots EXCEPT ![r] = Idle]
    /\ UNCHANGED <<users, now, loop, kept>>

(***************************************************************************)
(* Spec: the directory under two concurrent requests, registrations and    *)
(* federated logins that collide on an email, a username or a subject.     *)
(***************************************************************************)
RaceTokens == {Genuine("sub1", None), Genuine("sub2", "a@x.com")}

Next ==
    \/ \E r \in {1, 2} :
         RegisterCheckEmail(r, Emails, Usernames, {PwShort}, {None})
    \/ \E r \in {1, 2} : RegisterCheckUsername(r)
    \/ \E r \in {1, 2} : RegisterCreate(r)
    \/ \E r \in {1, 2} : AppleFetch(r, RaceTokens, {None}, {None})
    \/ \E r \in {1, 2} : AppleVerify(r)
    \/ \E r \in {1, 2} : AppleLookup(r)
    \/ \E r \in {1, 2} : AppleCreate(r)

Spec == Init /\ [][Next]_vars

(***************************************************************************)
(* SpecSeq: one request at a time, over all the inputs.                    *)
(***************************************************************************)
NextSeq ==
    \/ RegisterCheckEmail(1, Emails, Usernames, {PwLimit, PwShort}, {None})
    \/ RegisterCheckUsername(1)
    \/ RegisterCreate(1)
    \/ LoginWithEmail(1, Identifiers, Passwords \ {PwNul})
    \/ AppleFetch(1, IdentityTokens, ClientEmails, {None})
    \/ AppleVerify(1)
    \/ AppleLookup(1)
    \/ AppleCreate(1)

SpecSeq == Init /\ [][NextSeq]_vars

(***************************************************************************)
(* SpecRefresh: the refresh exchange while time passes and accounts are    *)
(* created.                                                                *)
(***************************************************************************)
NextRefresh ==
    \/ RegisterCheckEmail(1, {"a@x.com"}, {"alice"}, {PwShort}, {None})
    \/ RegisterCheckUsername(1)
    \/ RegisterCreate(1)
    \/ AppleFetch(1, {Genuine("sub1", None)}, {None}, {None})
    \/ AppleVerify(1)
    \/ AppleLookup(1)
    \/ AppleCreate(1)
    \/ Tick
    \/ RefreshAccessToken(1)

SpecRefresh == Init /\ [][NextRefresh]_vars

(***************************************************************************)
(* SpecReuse: one account, and a client that keeps a refresh token it has  *)
(* exchanged and presents tokens again while time passes.                  *)
(***************************************************************************)
NextReuse ==
    \/ RegisterCheckEmail(1, {"a@x.com"}, {"alice"}, {PwShort}, {None})
    \/ RegisterCheckUsername(1)
    \/ RegisterCreate(1)
    \/ Tick
    \/ RefreshAccessToken(1)
    \/ KeepToken

SpecReuse == Init /\ [][NextReuse]_vars

(***************************************************************************)
(* SpecAll: the four flows together, two requests at a time, with inputs   *)
(* that succeed and inputs that fail.                                      *)
(***************************************************************************)
AllTokens ==
    {Genuine("sub1", None), Genuine("sub2", "a@x.com"),
     [Genuine("sub1", None) EXCEPT !.sig = "forged"]}

NextAll ==
    \/ \E r \in {1, 2} :
         RegisterCheckEmail(r, {"a@x.com"}, {"alice"}, {PwShort, PwNul}, {None})
    \/ \E r \in {1, 2} : RegisterCheckUsername(r)
    \/ \E r \in {1, 2} : RegisterCreate(r)
    \/ \E r \in {1, 2} : LoginWithEmail(r, {"a@x.com", "nobody"},
                                         {PwShort, PwEmpty, PwNul})
    \/ \E r \in {1, 2} : AppleFetch(r, AllTokens, {None}, {None})
    \/ \E r \in {1, 2} : AppleVerify(r)
    \/ \E r \in {1, 2} : AppleLookup(r)
    \/ \E r \in {1, 2} : AppleCreate(r)
    \/ \E r \in {1, 2} : RefreshAccessToken(r)

SpecAll == Init /\ [][NextAll]_vars

(***************************************************************************)
(* SpecApple: federated logins for one subject, two at a time, whose       *)
(* requests differ in the email claim, the client's email and the names.   *)
(***************************************************************************)
FirstNames == {None, "Ann"}

NextApple ==
    \/ \E r \in {1, 2} :
         AppleFetch(r, {Genuine("sub1", None), Genuine("sub1", "a@x.com")},
                    ClientEmails, FirstNames)
    \/ \E r \in {1, 2} : AppleVerify(r)
    \/ \E r \in {1, 2} : AppleLookup(r)
    \/ \E r \in {1, 2} : AppleCreate(r)

SpecApple == Init /\ [][NextApple]_vars

(***************************************************************************)
(* SpecLoop: two requests at a time in one process, which share its event  *)
(* loop.                                                                   *)
(***************************************************************************)
\* A request arrives in slot r.
Arrive(r) ==
    \/ RegisterCheckEmail(r, {"a@x.com"}, {"alice"}, {PwShort}, {None})
    \/ LoginWithEmail(r, {"a@x.com"}, {PwShort, PwEmpty})
    \/ RefreshAccessToken(r)
    \/ AppleFetch(r, {Genuine("sub1", None)}, {None}, {None})

\* The request in slot r takes its next step.
Proceed(r) ==
    \/ RegisterCheckUsername(r)
    \/ RegisterCreate(r)
    \/ AppleVerify(r)
    \/ AppleLookup(r)
    \/ AppleCreate(r)

NextLoop ==
    \/ \E r \in {1, 3} : Arrive(r)
    \/ \E r \in {1, 3} : Proceed(r)

SpecLoop == Init /\ [][NextLoop]_vars

(***************************************************************************)
(* SpecTracks: the tracks table under two concurrent requests for one      *)
(* track id, analyses and registrations of one entry.                      *)
(***************************************************************************)
TrackEntries(ids, bpms, confidences) ==
    {[id |-> id, title |-> "Song", artist |-> "Artist", bpm |-> bpm,
      confidence |-> confidence] :
        id \in ids, bpm \in bpms, confidence \in confidences}

\* List[TrackCreate] of at most two of `entries`.
Batches(entries) ==
    {<< >>} \cup {<<e>> : e \in entries}
    \cup {<<e, f>> : e \in entries, f \in entries}

\* What the analyzer returns, in tenths: 120.0, 128.5.
AnalyzedBpms == {1200, 1285}

\* Batches of one entry; an entry may bring the bpm an analysis returns.
RaceBatches ==
    {<<e>> : e \in TrackEntries({"t1"}, {NoValue, Value(1200), Value(1300)},
                                {NoValue, Value(90)})}

NextTracks ==
    \/ \E r \in {1, 2} : AnalyzeQuery(r, {"t1"}, AnalyzedBpms)
    \/ \E r \in {1, 2} : AnalyzeInsert(r)
    \/ \E r \in {1, 2} : AnalyzeRequery(r)
    \/ \E r \in {1, 2} : AnalyzeUpdate(r)
    \/ \E r \in {1, 2} : RegisterTracksBegin(r, RaceBatches)
    \/ \E r \in {1, 2} : RegisterTracksQuery(r)
    \/ \E r \in {1, 2} : RegisterTracksCommit(r)

SpecTracks == Init /\ [][NextTracks]_vars

(***************************************************************************)
(* SpecTracksSeq: the tracks table under one request at a time: batches    *)
(* of up to two entries, with and without bpm and confidence, for one      *)
(* track id or two, and analyses that may return 0.0.                      *)
(***************************************************************************)
\* TrackCreate.bpm and TrackCreate.confidence of an entry.
BpmsIn == {NoValue, Value(0), Value(1300)}
ConfidencesIn == {NoValue, Value(50), Value(90)}

\* An entry for t1 under another title than the other entries.
Retitled ==
    [id |-> "t1", title |-> "Song (Remastered)", artist |-> "Artist",
     bpm |-> Value(1200), confidence |-> Value(90)]

SeqEntries ==
    TrackEntries({"t1"}, BpmsIn, ConfidencesIn)
    \cup TrackEntries({"t2"}, {Value(1300)}, {NoValue})
    \cup {Retitled}

NextTracksSeq ==
    \/ AnalyzeQuery(1, {"t1"}, AnalyzedBpms \cup {0})
    \/ AnalyzeInsert(1)
    \/ AnalyzeUpdate(1)
    \/ RegisterTracksBegin(1, Batches(SeqEntries))
    \/ RegisterTracksQuery(1)
    \/ RegisterTracksCommit(1)

SpecTracksSeq == Init /\ [][NextTracksSeq]_vars

(***************************************************************************)
(* SpecHasher: the credential hasher on its own, over passwords around the *)
(* 72-byte limit and digests of every kind, and local logins against a     *)
(* table whose rows carry digests this code did not write.                 *)
(***************************************************************************)
\* Digests pwd_context cannot read: of a scheme that is not among its
\* schemes, with no scheme prefix at all, and with the bcrypt prefix but
\* not the form of a bcrypt digest.
ForeignDigests ==
    {[scheme |-> "argon2", intact |-> TRUE, secret |-> PwShort],
     [scheme |-> "plaintext", intact |-> FALSE, secret |-> PwShort],
     [scheme |-> "bcrypt", intact |-> FALSE, secret |-> PwShort]}

\* The digests a hashed_password column may hold.
Digests ==
    {NoHash} \cup ForeignDigests
    \cup {get_password_hash(p).digest :
             p \in {q \in HasherPasswords : get_password_hash(q).exc = None}}

\* A users table with rows whose digests were written by other software.
LegacyUsers ==
    {[id |-> 1, apple_user_id |-> None, email |-> "a@x.com",
      username |-> "alice",
      hashed_password |-> [scheme |-> "argon2", intact |-> TRUE,
                           secret |-> PwShort],
      first_name |-> None, last_name |-> None],
     [id |-> 2, apple_user_id |-> None, email |-> "b@x.com",
      username |-> "bob",
      hashed_password |-> [scheme |-> "bcrypt", intact |-> FALSE,
                           secret |-> PwShort],
      first_name |-> None, last_name |-> None]}

InitHasher ==
    /\ users = LegacyUsers
    /\ slots = [r \in Slots |-> Idle]
    /\ last = [kind |-> "none"]
    /\ now = 0
    /\ loop = [p \in Processes |-> 0]
    /\ kept = [kind |-> "none"]
    /\ tracks = NoTracks

\* get_password_hash(password) is called.
HashPassword ==
    /\ \E password \in HasherPasswords :
         last' = [kind |-> "hash", password |-> password,
                  result |-> get_password_hash(password)]
    /\ UNCHANGED <<users, slots, now, loop, kept, tracks>>

\* verify_password(plain_password, hashed_password) is called.
VerifyPassword ==
    /\ \E plain_password \in HasherPasswords, hashed_password \in Digests :
         last' = [kind |-> "verify", plain_password |-> plain_password,
                  hashed_password |-> hashed_password,
                  result |-> verify_password(plain_password, hashed_password)]
    /\ UNCHANGED <<users, slots, now, loop, kept, tracks>>

\* verify_password(plain_password, get_password_hash(password)) is called:
\* an exception of either call is the result.
HashThenVerify ==
    /\ \E plain_password \in HasherPasswords, password \in HasherPasswords :
         LET hashed == get_password_hash(password)
         IN last' = [kind |-> "hash_verify", password |-> password,
                     plain_password |-> plain_password,
                     result |-> IF hashed.exc # None
                                THEN [exc |-> hashed.exc, value |-> FALSE]
                                ELSE verify_password(plain_password,
                                                     hashed.digest)]
    /\ UNCHANGED <<users, slots, now, loop, kept, tracks>>

NextHasher ==
    \/ HashPassword
    \/ VerifyPassword
    \/ HashThenVerify
    \/ LoginWithEmail(1, {"a@x.com", "bob", "nobody"}, {PwShort, PwEmpty})

SpecHasher == InitHasher /\ [][NextHasher]_vars

(***************************************************************************)
(* Properties.                                                             *)
(***************************************************************************)
\* What the routers raise.
EmailExists ==
    HTTPException(HTTP_400_BAD_REQUEST,
                  "An account with this email already exists")
UsernameTaken ==
    HTTPException(HTTP_409_CONFLICT, "This username is already taken")
InvalidCredentials ==
    HTTPException(HTTP_401_UNAUTHORIZED, "Incorrect email/username or password")
UserNotFound == HTTPException(HTTP_404_NOT_FOUND, "User not found")

\* An identity token that Apple signed for this application and that has
\* not expired at t, presented while the key set can be fetched.
Verifies(identity_token, jwks_reachable, t) ==
    /\ jwks_reachable
    /\ identity_token.kid = "apple_kid"
    /\ identity_token.sig = "apple"
    /\ identity_token.iss = APPLE_ISSUER
    /\ identity_token.aud = APP_BUNDLE_ID
    /\ identity_token.exp * TicksPerSecond > t

\* The response is a token pair whose two tokens have subject `id`.
IsTokenPairFor(response, id) ==
    /\ response.status = 200
    /\ response.access_token.claims.sub = Str(id)
    /\ response.refresh_token.claims.sub = Str(id)

\* C1: a federated login with a verified token for a subject (and no email,
\* so that only the subject can collide) ends with exactly one row of that
\* subject and with a token pair for that row's id, also when another
\* login with the same subject runs concurrently.
C1_ConcurrentFederatedLogin ==
    (/\ last.kind = "apple"
     /\ Verifies(last.login_req.identity_token, last.jwks_reachable, now)
     /\ Or(last.login_req.identity_token.email, last.login_req.email) = None)
    => \E u \in users :
         /\ u.apple_user_id = last.login_req.identity_token.sub
         /\ \A v \in users : v.apple_user_id = u.apple_user_id => v = u
         /\ IsTokenPairFor(last.response, u.id)

\* C2: of the registrations with one email or one username at most one
\* creates a row, and a registration that does not succeed ends with one
\* of the two "already exists" conflict errors, also when it lost a race
\* against a concurrent registration with the same email or username.
C2_RaceLoserGetsConflict ==
    last.kind = "register" =>
        /\ Cardinality({u \in users : u.email = last.user_in.email}) <= 1
        /\ Cardinality({u \in users : u.username = last.user_in.username}) <= 1
        /\ last.response.status # 200
           => last.response \in {EmailExists, UsernameTaken}

\* C3: no two distinct rows share a non-null federated subject, a non-null
\* email or a non-null username.
C3_UniqueIdentityAttributes ==
    \A u, v \in users :
        u # v =>
            /\ u.apple_user_id = None \/ u.apple_user_id # v.apple_user_id
            /\ u.email = None \/ u.email # v.email
            /\ u.username = None \/ u.username # v.username

\* C3 witness: the unique index has refused a row while rows of both kinds
\* are in the table.
C3_Witness ==
    /\ last.kind \in {"register", "apple"}
    /\ last.response = Unhandled("IntegrityError")
    /\ \E u, v \in users : u.apple_user_id # None /\ v.hashed_password # NoHash

\* C4: a local login whose identifier matched no row, whose row has no
\* password hash, or whose password does not verify, gets one and the same
\* response.
C4_UniformLoginFailure ==
    last.kind = "login" =>
        ((\/ last.user = NoRow
          \/ last.user.hashed_password = NoHash
          \/ last.user.hashed_password.secret # Truncated[last.login_in.password])
         => last.response = InvalidCredentials)

\* C5: a refresh exchange given a token of create_access_token is answered
\* 401, whatever its subject and expiry.
C5_AccessTokenRefused ==
    last.kind = "refresh" =>
        \A subject \in 1..(Cardinality(users) + 1), t \in Instants :
            last.body.refresh_token = create_access_token(subject, t)
            => last.response.status = HTTP_401_UNAUTHORIZED

\* C5 witness: an unexpired access token of an existing user was refused.
C5_Witness ==
    /\ last.kind = "refresh"
    /\ \E u \in users :
         last.body.refresh_token = create_access_token(u.id, last.at)
    /\ last.response =
         HTTPException(HTTP_401_UNAUTHORIZED, "Invalid token type")

\* C6 as claimed: a token whose expiry time is earlier than the current
\* time is answered 401, and a refresh token issued at t is answered 401
\* at every time later than t plus the refresh lifetime.
C6_ExpiredAlwaysRefused ==
    last.kind = "refresh" =>
        /\ last.body.refresh_token.claims.exp * TicksPerSecond < last.at
           => last.response.status = HTTP_401_UNAUTHORIZED
        /\ \A subject \in 1..(Cardinality(users) + 1), t \in Instants :
             (/\ last.body.refresh_token = create_refresh_token(subject, t)
              /\ last.at > t + RefreshLifetime)
             => last.response.status = HTTP_401_UNAUTHORIZED

\* C6 amended: a token whose exp claim is earlier than the current time in
\* whole seconds is answered 401, whatever its signature, kind tag and
\* subject; a refresh token issued at t is answered 401 at every time at
\* least one second later than t plus the refresh lifetime.
C6_ExpiredBySecondsRefused ==
    last.kind = "refresh" =>
        /\ last.body.refresh_token.claims.exp < last.at \div TicksPerSecond
           => last.response.status = HTTP_401_UNAUTHORIZED
        /\ \A subject \in 1..(Cardinality(users) + 1), t \in Instants :
             (/\ last.body.refresh_token = create_refresh_token(subject, t)
              /\ last.at >= t + RefreshLifetime + TicksPerSecond)
             => last.response.status = HTTP_401_UNAUTHORIZED

\* C6 witness: the expired refresh token of an existing user, correctly
\* signed, was refused.
C6_Witness ==
    /\ last.kind = "refresh"
    /\ \E u \in users, t \in Instants :
         /\ last.body.refresh_token = create_refresh_token(u.id, t)
         /\ last.at >= t + RefreshLifetime + TicksPerSecond
    /\ last.response =
         HTTPException(HTTP_401_UNAUTHORIZED, "Refresh token expired or invalid")

\* C7: a federated login whose identity token does not verify never gets
\* to the lookup or the creation, and ends without a user and without a
\* token pair.
C7_UnverifiedTokenUnused ==
    /\ \A r \in Slots :
         "verified" \in DOMAIN slots[r] =>
             /\ Verifies(slots[r].login_req.identity_token,
                         slots[r].jwks_reachable, now)
             /\ slots[r].verified.apple_user_id =
                    slots[r].login_req.identity_token.sub
    /\ (/\ last.kind = "apple"
        /\ ~Verifies(last.login_req.identity_token, last.jwks_reachable, now))
       => last.user = NoRow /\ last.response.status = 500

\* C7 witness: a forged token naming the subject of an existing row was
\* turned away.
C7_Witness ==
    /\ last.kind = "apple"
    /\ last.login_req.identity_token.sig = "forged"
    /\ \E u \in users : u.apple_user_id = last.login_req.identity_token.sub
    /\ last.response = Unhandled("InvalidSignatureError")

\* C8: a login that has just been answered, with an identifier that is the
\* email or the username of a row with a password hash: it got a token
\* pair for that row's id if the password is the row's after truncation,
\* and InvalidCredentials otherwise.
C8_OwnCredentialsLogIn ==
    [][(last'.kind = "login" /\ last' # last) =>
        \A u \in users :
            (/\ u.hashed_password # NoHash
             /\ last'.login_in.identifier \in {u.email, u.username})
            => IF Truncated[last'.login_in.password] = u.hashed_password.secret
               THEN IsTokenPairFor(last'.response, u.id)
               ELSE last'.response = InvalidCredentials]_vars

\* C9: a registration that arrives with the email of an existing row is
\* answered with the email conflict in that step, goes no further, and
\* leaves the table as it was.
C9_TakenEmailRejected ==
    [][\A r \in Slots :
        /\ (slots[r].pc = "idle" /\ "user_in" \in DOMAIN slots'[r])
           => ~\E u \in users : u.email = slots'[r].user_in.email
        /\ (/\ last' # last
            /\ last'.kind = "register"
            /\ slots' = slots
            /\ \E u \in users : u.email = last'.user_in.email)
           => last'.response = EmailExists /\ users' = users]_vars

\* C9 witness: a registration with the email of a row that a federated
\* login created was refused.
C9_Witness ==
    /\ last.kind = "register"
    /\ last.response = EmailExists
    /\ \E u \in users :
         u.email = last.user_in.email /\ u.apple_user_id # None

\* C10: a refresh exchange given a correctly signed, unexpired refresh
\* token whose subject is no row's id is answered 404 "User not found".
C10_UnknownSubjectNotFound ==
    (/\ last.kind = "refresh"
     /\ last.body.refresh_token.key = SECRET_KEY
     /\ last.body.refresh_token.claims.exp >= last.at \div TicksPerSecond
     /\ Get(last.body.refresh_token.claims, "type") = "refresh"
     /\ ~\E u \in users : Str(u.id) = last.body.refresh_token.claims.sub)
    => last.response = UserNotFound

\* C10 witness: such an exchange, made while accounts exist.
C10_Witness ==
    /\ last.kind = "refresh"
    /\ last.body.refresh_token.key = SECRET_KEY
    /\ Get(last.body.refresh_token.claims, "type") = "refresh"
    /\ users # {}
    /\ ~\E u \in users : Str(u.id) = last.body.refresh_token.claims.sub
    /\ last.response = UserNotFound

\* C11: after a refresh exchange succeeded (kept), an exchange that
\* presents the token it was given, or the refresh token it issued, at
\* that time or later, while the token's exp claim is not earlier than the
\* current time in whole seconds and its user exists, succeeds with a
\* token pair for that user: the old and the new token are both valid.
C11_ExchangedTokenStillValid ==
    (/\ kept.kind = "refresh"
     /\ last.kind = "refresh"
     /\ last.at >= kept.at
     /\ last.body.refresh_token \in {kept.body.refresh_token,
                                     kept.response.refresh_token}
     /\ last.body.refresh_token.claims.exp >= last.at \div TicksPerSecond)
    => \A u \in users :
         Str(u.id) = last.body.refresh_token.claims.sub
         => last.response = TokenPair(u.id, last.at)

\* C11 witness: a token exchanged once was exchanged again a week later,
\* successfully, and its user exists.
C11_Witness ==
    /\ kept.kind = "refresh"
    /\ last.kind = "refresh"
    /\ last.body.refresh_token = kept.body.refresh_token
    /\ last.at >= RefreshLifetime
    /\ kept.at < RefreshLifetime
    /\ \E u \in users : Str(u.id) = last.body.refresh_token.claims.sub
    /\ last.response.status = 200

\* A row as create_with_email makes it for the registration user_in.
IsLocalRow(row, user_in) ==
    /\ row.apple_user_id = None
    /\ row.email = user_in.email
    /\ row.username = user_in.username
    /\ row.hashed_password = Bcrypt(Truncated[user_in.password])
    /\ row.first_name = user_in.first_name
    /\ row.last_name = user_in.last_name

\* A row as crud_user.create makes it for the federated login login_req.
IsFederatedRow(row, login_req) ==
    /\ row.apple_user_id = login_req.identity_token.sub
    /\ row.email = Or(login_req.identity_token.email, login_req.email)
    /\ row.username = None
    /\ row.hashed_password = NoHash
    /\ row.first_name = login_req.first_name
    /\ row.last_name = login_req.last_name

\* C12: a step that changes the users table adds exactly one row, with a
\* new id and every column set as the request gives it, and is the step
\* in which a registration, or a federated login for a subject that had
\* no row, gets its token pair; every step that ends a request with an
\* error, and every step of a local login or refresh exchange, leaves the
\* table as it was.
C12_OnlyCreationChangesRows ==
    [][/\ users' # users =>
           /\ last'.kind \in {"register", "apple"}
           /\ \E row \in users' \ users :
                /\ users' = users \cup {row}
                /\ DOMAIN row = DOMAIN NoRow
                /\ ~\E u \in users : u.id = row.id
                /\ IsTokenPairFor(last'.response, row.id)
                /\ last'.kind = "register" => IsLocalRow(row, last'.user_in)
                /\ last'.kind = "apple" =>
                       /\ IsFederatedRow(row, last'.login_req)
                       /\ ~\E u \in users :
                              u.apple_user_id = row.apple_user_id
       /\ (/\ last' # last
           /\ \/ last'.response.status # 200
              \/ last'.kind \in {"login", "refresh"})
          => users' = users]_vars

\* C12 witness: with a local and a federated row in the table, a
\* registration ended in an error at its commit.
C12_Witness ==
    /\ last.kind = "register"
    /\ last.response = Unhandled("IntegrityError")
    /\ \E u, v \in users : u.apple_user_id # None /\ v.hashed_password # NoHash

\* C13: no subject ever has two rows, and a federated login that looks
\* its verified subject up when a row of that subject exists ends in that
\* step with a token pair for that row's id, and leaves the table, that
\* row's id, email and names included, exactly as it was.
C13_ExistingSubjectReused ==
    [][/\ \A u, v \in users' :
            (u.apple_user_id # None /\ u.apple_user_id = v.apple_user_id)
            => u = v
       /\ \A r \in Slots :
            (/\ slots[r].pc = "lookup"
             /\ slots'[r] # slots[r]
             /\ \E u \in users :
                  u.apple_user_id = slots[r].login_req.identity_token.sub)
            => \E u \in users :
                 /\ u.apple_user_id = slots[r].login_req.identity_token.sub
                 /\ users' = users
                 /\ slots'[r] = Idle
                 /\ last'.kind = "apple"
                 /\ last'.login_req = slots[r].login_req
                 /\ last'.user = u
                 /\ last'.response = TokenPair(u.id, now)]_vars

\* C13 witness: a login whose request carries another email and other
\* names than the row of its subject got the token pair of that row, which
\* is still in the table as it was created.
C13_Witness ==
    /\ last.kind = "apple"
    /\ last.user \in users
    /\ last.user.first_name # last.login_req.first_name
    /\ last.user.last_name # last.login_req.last_name
    /\ last.user.email #
           Or(last.login_req.identity_token.email, last.login_req.email)
    /\ IsTokenPairFor(last.response, last.user.id)

\* C14: a federated login whose identity token verifies ends with a token
\* pair for a row of its subject, whatever email the new row would get.
C14_VerifiedLoginGetsTokens ==
    (/\ last.kind = "apple"
     /\ Verifies(last.login_req.identity_token, last.jwks_reachable, now))
    => /\ last.response.status = 200
       /\ \E u \in users :
            /\ u.apple_user_id = last.login_req.identity_token.sub
            /\ IsTokenPairFor(last.response, u.id)

\* C15: while a federated login waits for the key set, every other slot
\* can take a step: a new request can arrive in it, or the request in it
\* can proceed.
C15_FetchBlocksNobody ==
    \A r, q \in {1, 3} :
        (r # q /\ slots[r].pc = "fetch")
        => IF slots[q].pc = "idle" THEN ENABLED Arrive(q)
                                   ELSE ENABLED Proceed(q)

\* C16: a federated login whose identity token does not verify (the key
\* set cannot be fetched, no key matches, the signature, issuer, audience
\* or expiry check fails) is answered 401.
C16_VerificationFailureUnauthorized ==
    (/\ last.kind = "apple"
     /\ ~Verifies(last.login_req.identity_token, last.jwks_reachable, now))
    => last.response.status = HTTP_401_UNAUTHORIZED

\* The subject the tokens of a successful request must carry: the text of
\* the id of the row the request created or resolved; for a refresh
\* exchange the subject of the token presented.
SubjectsOf(request) ==
    IF request.kind = "register"
    THEN {Str(u.id) : u \in {v \in users : IsLocalRow(v, request.user_in)}}
    ELSE IF request.kind = "login"
    THEN {Str(u.id) : u \in {v \in users :
              /\ v = request.user
              /\ request.login_in.identifier \in {v.email, v.username}}}
    ELSE IF request.kind = "apple"
    THEN {Str(u.id) : u \in {v \in users :
              /\ v = request.user
              /\ v.apple_user_id = request.login_req.identity_token.sub}}
    ELSE {request.body.refresh_token.claims.sub}

\* C17: the response of every successful request is an access token, a
\* refresh token and token_type "bearer" and nothing else; both tokens are
\* signed with the secret and carry the subject of the request; the
\* access token has the claims exp and sub only, the refresh token has
\* also type "refresh".
C17_TokenPairShape ==
    (last.kind # "none" /\ last.response.status = 200)
    => /\ DOMAIN last.response =
              {"status", "access_token", "refresh_token", "token_type"}
       /\ last.response.token_type = "bearer"
       /\ last.response.access_token.key = SECRET_KEY
       /\ last.response.refresh_token.key = SECRET_KEY
       /\ DOMAIN last.response.access_token.claims = {"exp", "sub"}
       /\ DOMAIN last.response.refresh_token.claims = {"exp", "sub", "type"}
       /\ last.response.refresh_token.claims.type = "refresh"
       /\ SubjectsOf(last) = {last.response.access_token.claims.sub}
       /\ SubjectsOf(last) = {last.response.refresh_token.claims.sub}

\* C17 witness: with a local and a federated row in the table, a refresh
\* exchange with the refresh token of the second row succeeded.
C17_Witness ==
    /\ last.kind = "refresh"
    /\ last.response.status = 200
    /\ Cardinality(users) = 2
    /\ last.body.refresh_token.claims.sub = Str(2)

\* C18: a local login that has just been answered got no token pair for
\* the id of a row without a password hash; and when its identifier is the
\* email (or username) of a row without a password hash, it was answered
\* InvalidCredentials, whatever the password.
C18_FederatedOnlyNeverLogsIn ==
    [][(last' # last /\ last'.kind = "login") =>
        \A u \in users :
            u.hashed_password = NoHash
            => /\ ~IsTokenPairFor(last'.response, u.id)
               /\ last'.login_in.identifier \in {u.email, u.username}
                  => last'.response = InvalidCredentials]_vars

\* The password cut to the longest run of whole characters whose UTF-8
\* encoding is at most 72 bytes.
RECURSIVE WholePrefix(_, _)
WholePrefix(password, room) ==
    IF password = << >> \/ Utf8Len(Head(password)) > room THEN << >>
    ELSE <<Head(password)>>
         \o WholePrefix(Tail(password), room - Utf8Len(Head(password)))

\* C19: for all passwords p1 and p2, get_password_hash(p2) returns a
\* digest and verify_password(p1, that digest) returns true exactly when
\* p1 and p2 are equal after the cut to 72 bytes; so verify(p, hash(p)) is
\* true for every p, and a password over 72 bytes and its 72-byte prefix
\* verify against the same digest.
C19_VerifyIffEqualTruncated ==
    last.kind = "hash_verify" =>
        /\ last.result.exc = None
        /\ last.result.value =
               (WholePrefix(last.plain_password, BCRYPT_MAX_BYTES) =
                WholePrefix(last.password, BCRYPT_MAX_BYTES))

\* C20: verify_password returns false, raising nothing, for a digest that
\* is malformed or of a scheme other than bcrypt, as it does for a bcrypt
\* digest of another password; and a local login that resolves to a row
\* with such a digest is answered InvalidCredentials.
C20_VerifyNeverRaises ==
    /\ (/\ last.kind = "verify"
        /\ last.hashed_password \in ForeignDigests)
       => last.result = [exc |-> None, value |-> FALSE]
    /\ (/\ last.kind = "login"
        /\ last.user # NoRow
        /\ last.user.hashed_password \in ForeignDigests)
       => last.response = InvalidCredentials

\* C21: every row of the table has a subject and no password hash, or an
\* email, a username and a password hash; a row that a federated login
\* adds is of the first kind and a row that a registration adds is of the
\* second; no step adds a row with neither a subject, an email nor a
\* username with a hash, and no step changes whether the row of an id has
\* a password hash.
C21_RowKinds ==
    [][\A row \in users' :
        /\ \/ row.apple_user_id # None /\ row.hashed_password = NoHash
           \/ /\ row.email # None
              /\ row.username # None
              /\ row.hashed_password # NoHash
        /\ row \notin users =>
              /\ last'.kind \in {"register", "apple"}
              /\ last'.kind = "apple" =>
                     /\ row.apple_user_id # None
                     /\ row.hashed_password = NoHash
              /\ last'.kind = "register" =>
                     /\ row.email # None
                     /\ row.username # None
                     /\ row.hashed_password # NoHash
        /\ \A old \in users :
              old.id = row.id =>
                  (old.hashed_password = NoHash <=> row.hashed_password = NoHash)]_vars

\* C21 witness: a row of each kind is in the table, the federated one
\* with neither email nor username, and a local login has just been
\* answered for the local one.
C21_Witness ==
    /\ \E u, v \in users :
         /\ u.apple_user_id # None /\ u.email = None /\ u.username = None
         /\ u.hashed_password = NoHash
         /\ v.hashed_password # NoHash
         /\ IsTokenPairFor(last.response, v.id)
    /\ last.kind = "login"

\* C23: no string is the email of one row and the username of another,
\* and the filter of the local login, email = identifier or username =
\* identifier, matches at most one row for every identifier.
C23_NoEmailIsAnotherUsername ==
    /\ \A u, v \in users :
         (u # v /\ u.email # None) => u.email # v.username
    /\ \A identifier \in Identifiers :
         Cardinality({u \in users : \/ u.email = identifier
                                    \/ u.username = identifier}) <= 1

\* C24: a registration that gets as far as the username lookup (its email
\* was not taken) when a row has its username is answered in that step
\* with the username conflict, which is not the email conflict, goes no
\* further and leaves the table as it was; a registration that arrives
\* when one row has its email and a row has its username is answered with
\* the email conflict.
C24_TakenUsernameRejected ==
    [][/\ UsernameTaken # EmailExists
       /\ UsernameTaken.status # EmailExists.status
       /\ \A r \in Slots :
            (/\ slots[r].pc = "check_username"
             /\ slots'[r] # slots[r]
             /\ \E u \in users : u.username = slots[r].user_in.username)
            => /\ last'.kind = "register"
               /\ last'.user_in = slots[r].user_in
               /\ last'.response = UsernameTaken
               /\ slots'[r] = Idle
               /\ users' = users
       /\ (/\ last' # last
           /\ last'.kind = "register"
           /\ slots' = slots
           /\ \E u \in users : u.email = last'.user_in.email
           /\ \E u \in users : u.username = last'.user_in.username)
          => last'.response = EmailExists /\ users' = users]_vars

\* C24 witness: a registration with a free email and the username of a
\* row was refused with the username conflict.
C24_Witness ==
    /\ last.kind = "register"
    /\ last.response = UsernameTaken
    /\ \E u \in users : u.username = last.user_in.username
    /\ ~\E u \in users : u.email = last.user_in.email

\* C26: a step in which a federated login adds a row: the identity token
\* verifies, the row's subject is the token's sub claim, and the row's
\* email is the token's email claim when it has one and the email of the
\* request otherwise.
C26_VerifiedEmailPreferred ==
    [][(users' # users /\ last'.kind = "apple") =>
        LET identity_token == last'.login_req.identity_token
        IN /\ Verifies(identity_token, last'.jwks_reachable, now)
           /\ \E row \in users' \ users :
                /\ users' = users \cup {row}
                /\ row = last'.user
                /\ row.apple_user_id = identity_token.sub
                /\ identity_token.email # None =>
                       row.email = identity_token.email
                /\ identity_token.email = None =>
                       row.email = last'.login_req.email]_vars

\* C26 witness: a federated login whose token carries an email claim and
\* whose request carries another email was answered with the token pair
\* of a row that has the email of the claim.
C26_Witness ==
    /\ last.kind = "apple"
    /\ last.login_req.identity_token.email # None
    /\ last.login_req.email # None
    /\ last.login_req.email # last.login_req.identity_token.email
    /\ last.user \in users
    /\ last.user.apple_user_id = last.login_req.identity_token.sub
    /\ last.user.email = last.login_req.identity_token.email
    /\ IsTokenPairFor(last.response, last.user.id)

\* A stored track without a bpm of full confidence.
NoFullConfidenceBpm(track) ==
    /\ track # NoTrack
    /\ track.bpm = NoValue \/ track.confidence # Value(FullConfidence)

\* C22: an analyze request that arrives for a track with a row but no bpm
\* of full confidence is not answered from the row: it fails only with an
\* error of the analyzer.  When its analysis has returned and the row is
\* still as the request read it, the request ends in the step of its one
\* commit: the row gets the analysed bpm, confidence 1.0 and source
\* "librosa_analysis", keeps its other columns, and the answer is the
\* success with that bpm.
C22_AnalyzeExistingTrack ==
    [][/\ (/\ last' # last
           /\ last'.kind = "analyze"
           /\ slots' = slots
           /\ NoFullConfidenceBpm(tracks[last'.request.apple_music_id]))
          => last'.response \in {DownloadFailed, AnalysisFailed}
       /\ \A r \in Slots :
            (/\ slots[r].pc = "idle"
             /\ "request" \in DOMAIN slots'[r]
             /\ NoFullConfidenceBpm(tracks[slots'[r].request.apple_music_id]))
            => /\ slots'[r].pc = "analyze_update"
               /\ slots'[r].track = tracks[slots'[r].request.apple_music_id]
               /\ slots'[r].commits = 0
       /\ \A r \in Slots :
            (/\ slots[r].pc = "analyze_update"
             /\ slots'[r] # slots[r]
             /\ slots[r].commits = 0
             /\ tracks[slots[r].request.apple_music_id] = slots[r].track)
            => LET apple_music_id == slots[r].request.apple_music_id
               IN /\ tracks' = [tracks EXCEPT ![apple_music_id] =
                         [@ EXCEPT !.bpm = Value(slots[r].bpm),
                                   !.confidence = Value(FullConfidence),
                                   !.source = "librosa_analysis"]]
                  /\ slots'[r] = Idle
                  /\ last' = [kind |-> "analyze",
                              request |-> slots[r].request,
                              response |-> AnalyzeResponse(apple_music_id,
                                              slots[r].bpm, FullConfidence),
                              commits |-> 1]]_vars

\* C22 witness: an analysis of a registered track that had neither bpm
\* nor confidence has ended with one commit, and the row has the bpm of
\* the answer.
C22_Witness ==
    /\ last.kind = "analyze"
    /\ last.commits = 1
    /\ last.response.status = 200
    /\ LET track == tracks[last.request.apple_music_id]
       IN /\ track.title = "Song"
          /\ track.bpm = Value(last.response.bpm)
          /\ track.confidence = Value(FullConfidence)
          /\ track.source = "librosa_analysis"

\* The row of an analysis that found no track: its bpm at full
\* confidence.
IsAnalysedRow(track, apple_music_id, bpm) ==
    track = [id |-> apple_music_id, title |-> "Unknown",
             artist |-> "Unknown", bpm |-> Value(bpm),
             confidence |-> Value(FullConfidence),
             source |-> "librosa_analysis"]

\* C25: of the analyze requests that found no row of their track id, the
\* one that commits first inserts the row with its bpm and is answered
\* with the success; one that commits when the row is there is not
\* answered with an error but reads the row again, and then leaves that
\* one row with its own bpm, confidence 1.0 and source
\* "librosa_analysis", and is answered with the success and its own bpm.
C25_ConcurrentAnalyses ==
    [][\A r \in Slots :
        LET apple_music_id == slots[r].request.apple_music_id
            success == AnalyzeResponse(apple_music_id, slots[r].bpm,
                                       FullConfidence)
        IN /\ (slots[r].pc = "analyze_insert" /\ slots'[r] # slots[r]) =>
                IF tracks[apple_music_id] = NoTrack
                THEN /\ tracks' = [tracks EXCEPT ![apple_music_id] =
                            AnalyzedTrack(slots[r].request, slots[r].bpm)]
                     /\ IsAnalysedRow(tracks'[apple_music_id],
                                      apple_music_id, slots[r].bpm)
                     /\ last'.kind = "analyze"
                     /\ last'.response = success
                     /\ slots'[r] = Idle
                ELSE /\ slots'[r].pc = "analyze_requery"
                     /\ tracks' = tracks
                     /\ last' = last
           /\ (slots[r].pc = "analyze_requery" /\ slots'[r] # slots[r]) =>
                /\ tracks[apple_music_id] # NoTrack
                /\ slots'[r].pc = "analyze_update"
                /\ slots'[r].track = tracks[apple_music_id]
                /\ tracks' = tracks
                /\ last' = last
           /\ (/\ slots[r].pc = "analyze_update"
               /\ slots'[r] # slots[r]
               /\ slots[r].commits = 1
               /\ \E bpm \in AnalyzedBpms :
                     IsAnalysedRow(slots[r].track, apple_music_id, bpm)) =>
                /\ tracks' = [tracks EXCEPT ![apple_music_id] =
                       AnalyzedTrack(slots[r].request, slots[r].bpm)]
                /\ last'.kind = "analyze"
                /\ last'.request = slots[r].request
                /\ last'.response = success
                /\ slots'[r] = Idle]_vars

\* C25 witness: an analysis whose insert met the row another analysis had
\* inserted meanwhile has been answered with its bpm after its second
\* commit, and that one row has this bpm at full confidence.
C25_Witness ==
    /\ last.kind = "analyze"
    /\ last.commits = 2
    /\ last.response.status = 200
    /\ IsAnalysedRow(tracks[last.request.apple_music_id],
                     last.request.apple_music_id, last.response.bpm)

\* The stored track with the bpm and confidence of the entry.
Overwritten(stored, track_in) ==
    [stored EXCEPT !.bpm = track_in.bpm, !.confidence = track_in.confidence]

\* Absent confidence counted as 0.
ConfidenceOrZero(confidence) ==
    IF confidence = NoValue THEN 0 ELSE confidence[1]

\* The rows an entry may leave for its id: without a row, the inserted
\* track with source "apple_music"; with a row, the row overwritten when
\* the entry has a bpm and either the row has none or the entry's
\* confidence is strictly the higher, and the row unchanged otherwise.
\* An entry whose bpm is 0.0 may leave the row unchanged in either case.
AllowedFor(stored, track_in) ==
    IF stored = NoTrack
    THEN {[id |-> track_in.id, title |-> track_in.title,
           artist |-> track_in.artist, bpm |-> track_in.bpm,
           confidence |-> track_in.confidence, source |-> "apple_music"]}
    ELSE IF /\ track_in.bpm # NoValue
            /\ \/ stored.bpm = NoValue
               \/ ConfidenceOrZero(track_in.confidence)
                      > ConfidenceOrZero(stored.confidence)
    THEN IF track_in.bpm = Value(0)
         THEN {stored, Overwritten(stored, track_in)}
         ELSE {Overwritten(stored, track_in)}
    ELSE {stored}

\* The rows the entries of a batch may leave, taken in order.
RECURSIVE AllowedAfter(_, _)
AllowedAfter(stored, entries) ==
    IF entries = << >> THEN {stored}
    ELSE UNION {AllowedAfter(row, Tail(entries)) :
                    row \in AllowedFor(stored, Head(entries))}

EntriesFor(tracks_in, id) ==
    SelectSeq(tracks_in, LAMBDA track_in : track_in.id = id)

\* C27: the commit of a register_tracks request, the table being as the
\* request read it, is answered with the success and leaves for every
\* track id a row the entries of the batch for that id allow: an absent
\* track inserted with source "apple_music", a stored track with bpm and
\* confidence overwritten only when the entry has a bpm and either the
\* stored bpm is absent or the entry's confidence is strictly higher than
\* the stored one, absent counted as 0, and unchanged otherwise.
C27_RegisterOverwriteRule ==
    [][\A r \in Slots :
        (/\ slots[r].pc = "register_tracks"
         /\ slots[r].index > Len(slots[r].tracks_in)
         /\ slots'[r] # slots[r])
        => /\ \A id \in TrackIds :
                tracks'[id] \in
                    AllowedAfter(tracks[id],
                                 EntriesFor(slots[r].tracks_in, id))
           /\ last'.kind = "register_tracks"
           /\ last'.tracks_in = slots[r].tracks_in
           /\ last'.response.status = 200
           /\ \A i \in 1..Len(slots[r].tracks_in) :
                /\ last'.response.body[i].bpm
                      = tracks'[slots[r].tracks_in[i].id].bpm
                /\ last'.response.body[i].confidence
                      = tracks'[slots[r].tracks_in[i].id].confidence]_vars

\* C27 witness: a batch of one entry has been committed for a track that
\* was stored under another title with a lower confidence, and the row
\* has kept its title and has the bpm and the confidence of the entry.
C27_Witness ==
    /\ last.kind = "register_tracks"
    /\ last.response.status = 200
    /\ last.tracks_in = <<Retitled>>
    /\ tracks[Retitled.id].title = "Song"
    /\ tracks[Retitled.id].bpm = Retitled.bpm
    /\ tracks[Retitled.id].confidence = Retitled.confidence
    /\ tracks[Retitled.id].source = "apple_music"

====
